---- MODULE Spec2Model ----
(***************************************************************************)
(* Model of smhi/smhi_lib.py: the forecast aggregation (_get_forecast,     *)
(* _get_forecast_hour, _get_all_forecast_from_api) over one JSON document, *)
(* and the session handling of SmhiAPI.async_get_forecast_api.             *)
(*                                                                         *)
(* Units.  Temperatures are whole degrees Celsius.  The document's pmean   *)
(* is given in hundredths of mm/h.  The two precipitation fields of a      *)
(* SmhiForecast are held in units of 1/2400 mm (PrecisionScale units per   *)
(* hundredth), so that the division by 24 of the daily aggregation is      *)
(* exact in integers.  round() is Python's round-half-even.                *)
(* A datetime is [month, day, hour, minute] of the year 2024, offset Z.    *)
(* SmhiForecast objects live in a heap (a sequence, object id = index) so  *)
(* that copy.deepcopy and plain references are different things.           *)
(***************************************************************************)
EXTENDS Integers, Sequences, FiniteSets, TLC

VARIABLES api_result, heap, returned, session, sessions, pending, requests

vars == <<api_result, heap, returned, session, sessions, pending, requests>>

forecastVars == <<api_result, heap, returned>>

apiVars == <<session, sessions, pending, requests>>

\* ------------------------------------------------------------------ bounds
MaxLen == 3

MaxCalls == 3

MaxApiCalls == 3

\* ------------------------------------------------------- program constants
PrecisionScale == 24

NoonHour == 12

ForecastTempMaxInit == -100

ForecastTempMinInit == 100

SecondsPerDay == 86400

SecondsPerHour == 3600

HttpOk == 200

ParamNames ==
    {"t", "r", "msl", "tstm", "tcc_mean", "Wsymb2", "pcat", "pmean",
     "ws", "wd", "vis", "gust"}

\* ------------------------------------------------------------ arithmetic
\* Python round(): nearest integer to num/den, ties to the even one.
RoundHalfEven(num, den) ==
    LET q == num \div den
        r == num % den
    IN  IF 2 * r < den THEN q
        ELSE IF 2 * r > den THEN q + 1
        ELSE IF q % 2 = 0 THEN q ELSE q + 1

\* round(mean_precipitation, 1) on a value in hundredths.
RoundOneDecimal(hundredths) == 10 * RoundHalfEven(hundredths, 10)

\* cloudiness from octas
Cloudiness(octa) ==
    IF 0 <= octa /\ octa <= 8 THEN RoundHalfEven(100 * octa, 8) ELSE 100

\* --------------------------------------------------------------- datetime
\* datetime.strptime(validTime, "%Y-%m-%dT%H:%M:%S%z"): the text's fields
\* <<month, day, hour, minute>> become the datetime's attributes.
Strptime(validTime) ==
    [month |-> validTime[1], day |-> validTime[2],
     hour |-> validTime[3], minute |-> validTime[4]]

DaysBeforeMonth(m) ==
    CASE m = 1 -> 0
      [] m = 2 -> 31
      [] m = 3 -> 60
      [] OTHER -> 91

\* seconds between the start of 2024 and dt
ToSeconds(dt) ==
    (((DaysBeforeMonth(dt.month) + dt.day - 1) * 24 + dt.hour) * 60
        + dt.minute) * 60

\* (a - b).seconds: the seconds attribute of the normalised timedelta,
\* always in 0 .. 86399; the days attribute is not part of it.
TimedeltaSeconds(a, b) == (ToSeconds(a) - ToSeconds(b)) % SecondsPerDay

\* the key of the OrderedDict: valid_time.day
DayKey(valid_time) == valid_time.day

\* variant: only a sample on the hour counts as the noon sample
IsNoonOnTheHour(valid_time) == valid_time.hour = NoonHour /\ valid_time.minute = 0

IsNoon(valid_time) == valid_time.hour = NoonHour

\* ---------------------------------------------------- parameter extraction
\* the local variable that the branch for a parameter name assigns
LocalNames ==
    {"temperature", "humidity", "pressure", "thunder", "cloudiness", "symbol",
     "precipitation", "mean_precipitation", "wind_speed", "wind_direction",
     "horizontal_visibility", "wind_gust"}

ParamOf(local) ==
    CASE local = "temperature" -> "t"
      [] local = "humidity" -> "r"
      [] local = "pressure" -> "msl"
      [] local = "thunder" -> "tstm"
      [] local = "cloudiness" -> "tcc_mean"
      [] local = "symbol" -> "Wsymb2"
      [] local = "precipitation" -> "pcat"
      [] local = "mean_precipitation" -> "pmean"
      [] local = "wind_speed" -> "ws"
      [] local = "wind_direction" -> "wd"
      [] local = "horizontal_visibility" -> "vis"
      [] local = "wind_gust" -> "gust"

\* The function's locals before the loop: none is bound.
NoLocals == [bound |-> {}, val |-> [v \in LocalNames |-> 0]]

\* The inner loop over forecast["parameters"]: a local is assigned when its
\* parameter is in the record and keeps what it held otherwise.
ReadParameters(locals, parameters) ==
    [bound |-> locals.bound \cup {v \in LocalNames : ParamOf(v) \in DOMAIN parameters},
     val |-> [v \in LocalNames |->
                IF ParamOf(v) \in DOMAIN parameters
                THEN IF v = "cloudiness"
                     THEN Cloudiness(parameters[ParamOf(v)])
                     ELSE parameters[ParamOf(v)]
                ELSE locals.val[v]]]

\* Reading a local that was never assigned raises UnboundLocalError.
AllBound(locals) == locals.bound = LocalNames

\* total_precipitation = round(mean_precipitation * hours, 2), in 1/2400 mm
TotalPrecipitation(mean_precipitation, seconds) ==
    PrecisionScale * RoundHalfEven(mean_precipitation * seconds, SecondsPerHour)

\* the SmhiForecast(...) constructor call of _get_all_forecast_from_api
SmhiForecast(locals, total_precipitation, valid_time) ==
    [temperature |-> locals.val["temperature"],
     temperature_max |-> locals.val["temperature"],
     temperature_min |-> locals.val["temperature"],
     humidity |-> locals.val["humidity"],
     pressure |-> locals.val["pressure"],
     thunder |-> locals.val["thunder"],
     cloudiness |-> locals.val["cloudiness"],
     precipitation |-> locals.val["precipitation"],
     wind_direction |-> locals.val["wind_direction"],
     wind_speed |-> locals.val["wind_speed"],
     horizontal_visibility |-> locals.val["horizontal_visibility"],
     wind_gust |-> locals.val["wind_gust"],
     mean_precipitation |->
        PrecisionScale * RoundOneDecimal(locals.val["mean_precipitation"]),
     total_precipitation |-> total_precipitation,
     symbol |-> locals.val["symbol"],
     valid_time |-> valid_time]

\* ------------------------------------------------------------------- heap
\* variant: an object already built for the same valid_time is handed out again
NewObjectReused(h, obj) ==
    IF \E id \in 1..Len(h) : h[id].valid_time = obj.valid_time
    THEN [heap |-> h,
          id |-> CHOOSE id \in 1..Len(h) :
                    /\ h[id].valid_time = obj.valid_time
                    /\ \A other \in 1..(id - 1) : h[other].valid_time # obj.valid_time]
    ELSE [heap |-> Append(h, obj), id |-> Len(h) + 1]

\* A constructor call: a new object, distinct from every existing one.
NewObject(h, obj) == [heap |-> Append(h, obj), id |-> Len(h) + 1]

\* variant: the reference itself instead of a copy
DeepCopyAlias(h, id) == [heap |-> h, id |-> id]

\* copy.deepcopy(object id): a new object with the same field values.
DeepCopy(h, id) == NewObject(h, h[id])

Deref(h, ids) == [k \in 1..Len(ids) |-> h[ids[k]]]

\* ------------------------------------------------------------ OrderedDict
\* An OrderedDict day -> list, as a sequence of [day, list] in insertion order.
HasKey(ordered, day) == \E k \in 1..Len(ordered) : ordered[k].day = day

\* if day not in d: d[day] = [] ; d[day].append(id)
AppendToDay(ordered, day, id) ==
    IF HasKey(ordered, day)
    THEN [k \in 1..Len(ordered) |->
            IF ordered[k].day = day
            THEN [ordered[k] EXCEPT !.list = Append(@, id)]
            ELSE ordered[k]]
    ELSE Append(ordered, [day |-> day, list |-> <<id>>])

\* ----------------------------------------------- _get_all_forecast_from_api
\* One pass of the loop over api_result["timeSeries"], from record i on.
\* st carries the locals, last_time (<<>> is None), the seconds of
\* total_hours_last_forecast, the heap, the OrderedDict and the ids built.
RECURSIVE BuildFrom(_, _, _)
BuildFrom(timeSeries, i, st) ==
    IF i > Len(timeSeries) \/ st.err THEN st
    ELSE
      LET valid_time == Strptime(timeSeries[i].validTime)
          locals == ReadParameters(st.locals, timeSeries[i].parameters)
          seconds == IF st.last_time # <<>>
                     THEN TimedeltaSeconds(valid_time, st.last_time[1])
                     ELSE st.seconds
      IN  IF ~AllBound(locals) THEN [st EXCEPT !.err = TRUE]
          ELSE
            LET total_precipitation ==
                    TotalPrecipitation(locals.val["mean_precipitation"], seconds)
                new == NewObject(st.heap,
                                 SmhiForecast(locals, total_precipitation, valid_time))
            IN  BuildFrom(timeSeries, i + 1,
                    [err |-> FALSE,
                     locals |-> locals,
                     last_time |-> <<valid_time>>,
                     seconds |-> seconds,
                     heap |-> new.heap,
                     ordered |-> AppendToDay(st.ordered, DayKey(valid_time), new.id),
                     ids |-> Append(st.ids, new.id)])

\* api_result["timeSeries"] raises KeyError when the key is absent.
GetAllForecastFromApi(doc, h) ==
    LET start == [err |-> ~doc.hasTimeSeries,
                  locals |-> NoLocals,
                  last_time |-> <<>>,
                  seconds |-> SecondsPerHour,
                  heap |-> h,
                  ordered |-> <<>>,
                  ids |-> <<>>]
    IN  BuildFrom(doc.timeSeries, 1, start)

\* ------------------------------------------------------------ _get_forecast
UpdateMin(forecast_temp_min, temperature) ==
    IF forecast_temp_min > temperature THEN temperature ELSE forecast_temp_min

\* variant: the comparison the wrong way round
UpdateMaxFlipped(forecast_temp_max, temperature) ==
    IF forecast_temp_max > temperature THEN temperature ELSE forecast_temp_max

UpdateMax(forecast_temp_max, temperature) ==
    IF forecast_temp_max < temperature THEN temperature ELSE forecast_temp_max

\* variant: the intensity is summed instead of the interval's depth
AddMeanPrecipitation(total_precipitation, forecast_day) ==
    total_precipitation + forecast_day.mean_precipitation

AddPrecipitation(total_precipitation, forecast_day) ==
    total_precipitation + forecast_day.total_precipitation

MeanPrecipitation(total_precipitation) == total_precipitation \div PrecisionScale

\* variant: the current-conditions element is added for every day
IsFirstDayAlways(day_nr) == day_nr >= 1

IsFirstDay(day_nr) == day_nr = 1

\* the inner loop "for forecast_day in forecasts_day"; forecast 0 is None
RECURSIVE ScanFrom(_, _, _)
ScanFrom(forecasts_day, k, sc) ==
    IF k > Len(forecasts_day) THEN sc
    ELSE
      LET forecast_day == sc.heap[forecasts_day[k]]
          copied == IF IsNoon(forecast_day.valid_time)
                    THEN DeepCopy(sc.heap, forecasts_day[k])
                    ELSE [heap |-> sc.heap, id |-> sc.forecast]
      IN  ScanFrom(forecasts_day, k + 1,
              [forecast_temp_min |-> UpdateMin(sc.forecast_temp_min, forecast_day.temperature),
               forecast_temp_max |-> UpdateMax(sc.forecast_temp_max, forecast_day.temperature),
               forecast |-> copied.id,
               total_precipitation |-> AddPrecipitation(sc.total_precipitation, forecast_day),
               heap |-> copied.heap])

\* the body of "for day in forecasts_ordered" for one day
AggregateDay(h, forecasts, day_nr, forecasts_day) ==
    LET first == IF IsFirstDay(day_nr)
                 THEN DeepCopy(h, forecasts_day[1])
                 ELSE [heap |-> h, id |-> 0]
        forecasts1 == IF IsFirstDay(day_nr) THEN Append(forecasts, first.id)
                      ELSE forecasts
        sc == ScanFrom(forecasts_day, 1,
                  [forecast_temp_min |-> ForecastTempMinInit,
                   forecast_temp_max |-> ForecastTempMaxInit,
                   forecast |-> 0,
                   total_precipitation |-> 0,
                   heap |-> first.heap])
        forecast == IF sc.forecast = 0 THEN forecasts_day[1] ELSE sc.forecast
    IN  [heap |-> [sc.heap EXCEPT ![forecast] =
                      [@ EXCEPT !.temperature_max = sc.forecast_temp_max,
                                !.temperature_min = sc.forecast_temp_min,
                                !.total_precipitation = sc.total_precipitation,
                                !.mean_precipitation =
                                    MeanPrecipitation(sc.total_precipitation)]],
         forecasts |-> Append(forecasts1, forecast)]

RECURSIVE DaysFrom(_, _, _)
DaysFrom(ordered, day_nr, st) ==
    IF day_nr > Len(ordered) THEN st
    ELSE DaysFrom(ordered, day_nr + 1,
                  AggregateDay(st.heap, st.forecasts, day_nr, ordered[day_nr].list))

GetForecast(doc, h) ==
    LET all == GetAllForecastFromApi(doc, h)
    IN  IF all.err THEN [err |-> TRUE, heap |-> h, forecasts |-> <<>>, all |-> all]
        ELSE LET st == DaysFrom(all.ordered, 1, [heap |-> all.heap, forecasts |-> <<>>])
             IN  [err |-> FALSE, heap |-> st.heap, forecasts |-> st.forecasts,
                  all |-> all]

\* ------------------------------------------------------- _get_forecast_hour
\* every list of the OrderedDict, one after the other, in key order
RECURSIVE Flatten(_, _)
Flatten(ordered, d) ==
    IF d > Len(ordered) THEN <<>> ELSE ordered[d].list \o Flatten(ordered, d + 1)

\* forecast._total_precipitation = forecast._mean_precipitation, on the
\* object itself (forecast = forecast_hour is a reference, not a copy)
RECURSIVE ProjectFrom(_, _, _)
ProjectFrom(ids, k, h) ==
    IF k > Len(ids) THEN h
    ELSE ProjectFrom(ids, k + 1,
            [h EXCEPT ![ids[k]] =
                [@ EXCEPT !.total_precipitation = h[ids[k]].mean_precipitation]])

GetForecastHour(doc, h) ==
    LET all == GetAllForecastFromApi(doc, h)
    IN  IF all.err THEN [err |-> TRUE, heap |-> h, forecasts |-> <<>>, all |-> all]
        ELSE LET forecasts == Flatten(all.ordered, 1)
             IN  [err |-> FALSE, heap |-> ProjectFrom(forecasts, 1, all.heap),
                  forecasts |-> forecasts, all |-> all]

\* ------------------------------------------------------------------ inputs
\* validTime texts <<month, day, hour, minute>> of 2024, in ascending order:
\* Jan 1 11:00, 12:00, 12:30; Jan 2 12:00; Feb 1 13:00.
ValidTimes ==
    << <<1, 1, 11, 0>>, <<1, 1, 12, 0>>, <<1, 1, 12, 30>>,
       <<1, 2, 12, 0>>, <<2, 1, 13, 0>> >>

FullParameters(t, pmean, octa) ==
    [n \in ParamNames |->
        CASE n = "t" -> t
          [] n = "pmean" -> pmean
          [] n = "tcc_mean" -> octa
          [] n = "r" -> 80
          [] n = "msl" -> 1013
          [] n = "tstm" -> 5
          [] n = "Wsymb2" -> 3
          [] n = "pcat" -> 3
          [] n = "ws" -> 4
          [] n = "wd" -> 270
          [] n = "vis" -> 50
          [] n = "gust" -> 9]

Without(parameters, name) ==
    [n \in DOMAIN parameters \ {name} |-> parameters[n]]

\* the "parameters" arrays a record is drawn from; two of them are malformed
ParameterChoices ==
    {FullParameters(-150, 0, 4), FullParameters(5, 100, 9),
     FullParameters(150, 26, 3), FullParameters(-3, 26, 0),
     Without(FullParameters(7, 100, 8), "t"),
     Without(FullParameters(20, 26, 1), "pmean")}

RECURSIVE SortedSeq(_)
SortedSeq(S) ==
    IF S = {} THEN <<>>
    ELSE LET m == CHOOSE x \in S : \A y \in S : x <= y
         IN  <<m>> \o SortedSeq(S \ {m})

\* strictly ascending index sequences into ValidTimes, at most MaxLen long
AscendingIndexes ==
    {SortedSeq(S) : S \in {T \in SUBSET (1..Len(ValidTimes)) : Cardinality(T) <= MaxLen}}

TimeSeriesOf(idx) ==
    {[i \in 1..Len(idx) |-> [validTime |-> ValidTimes[idx[i]], parameters |-> ps[i]]] :
        ps \in [1..Len(idx) -> ParameterChoices]}

\* JSON documents: with a timeSeries array (possibly empty), or without the key
Documents ==
    {[hasTimeSeries |-> TRUE, timeSeries |-> ts] :
        ts \in UNION {TimeSeriesOf(idx) : idx \in AscendingIndexes}}
    \cup {[hasTimeSeries |-> FALSE, timeSeries |-> <<>>]}

NoDocument == [hasTimeSeries |-> FALSE, timeSeries |-> <<>>]

\* ----------------------------------------------------------------- actions
\* What a call left behind: the function, whether it raised, the returned
\* list (object ids), the field values of that list at return time, and the
\* samples _get_all_forecast_from_api built: their values in input order and
\* the OrderedDict as positions into that order.
CallRecord(fn, r, h) ==
    [fn |-> fn,
     outcome |-> IF r.err THEN "error" ELSE "ok",
     forecasts |-> r.forecasts,
     value |-> IF r.err THEN <<>> ELSE Deref(r.heap, r.forecasts),
     samples |-> IF r.err THEN <<>> ELSE Deref(r.all.heap, r.all.ids),
     days |-> IF r.err THEN <<>>
              ELSE [d \in 1..Len(r.all.ordered) |->
                      [day |-> r.all.ordered[d].day,
                       list |-> [k \in 1..Len(r.all.ordered[d].list) |->
                                   r.all.ordered[d].list[k] - Len(h)]]]]

\* Smhi.get_forecast: _get_forecast(json_data)
CallGetForecast ==
    /\ Len(returned) < MaxCalls
    /\ LET r == GetForecast(api_result, heap)
       IN  /\ heap' = r.heap
           /\ returned' = Append(returned, CallRecord("daily", r, heap))
    /\ UNCHANGED <<api_result, apiVars>>

\* Smhi.get_forecast_hour: _get_forecast_hour(json_data)
CallGetForecastHour ==
    /\ Len(returned) < MaxCalls
    /\ LET r == GetForecastHour(api_result, heap)
       IN  /\ heap' = r.heap
           /\ returned' = Append(returned, CallRecord("hourly", r, heap))
    /\ UNCHANGED <<api_result, apiVars>>

\* ------------------------------------------------------------------ SmhiAPI
\* self.session: 0 is None, otherwise an index into sessions.
\* Lines up to "async with self.session.get(api_url)": the session is
\* created when there is none, and the request goes out on self.session.
\* A request on a closed session fails at once, the call is over.
AsyncGetForecastApiRequest ==
    /\ Len(requests) < MaxApiCalls
    /\ LET is_new_session == session = 0
           sessions1 == IF is_new_session
                        THEN Append(sessions, [closed |-> FALSE, supplied |-> FALSE])
                        ELSE sessions
           s == IF is_new_session THEN Len(sessions1) ELSE session
           call == Len(requests) + 1
       IN  /\ session' = s
           /\ sessions' = sessions1
           /\ requests' = Append(requests,
                  [session |-> s, is_new_session |-> is_new_session,
                   on_closed |-> sessions1[s].closed,
                   status |-> 0,
                   result |-> IF sessions1[s].closed THEN "raised" ELSE "pending"])
           /\ pending' = IF sessions1[s].closed THEN pending ELSE pending \cup {call}
    /\ UNCHANGED forecastVars

\* The response arrives: on a status other than 200 the call raises, on 200
\* it returns the document; either way a session the call created is closed.
AsyncGetForecastApiResponse ==
    /\ \E call \in pending, status \in {HttpOk, 404, 500} :
        /\ pending' = pending \ {call}
        /\ sessions' = IF requests[call].is_new_session
                       THEN [sessions EXCEPT ![session].closed = TRUE]
                       ELSE sessions
        /\ requests' = [requests EXCEPT ![call].status = status,
                           ![call].result = IF status # HttpOk THEN "raised" ELSE "returned"]
    /\ UNCHANGED <<session, forecastVars>>

\* --------------------------------------------------------- specifications
Init ==
    /\ api_result \in Documents
    /\ heap = <<>>
    /\ returned = <<>>
    /\ session = 0
    /\ sessions = <<>>
    /\ pending = {}
    /\ requests = <<>>

Next == CallGetForecast \/ CallGetForecastHour

Spec == Init /\ [][Next]_vars

\* SmhiAPI(session): constructed without a session or with the caller's one
InitApi ==
    /\ api_result = NoDocument
    /\ heap = <<>>
    /\ returned = <<>>
    /\ \/ session = 0 /\ sessions = <<>>
       \/ session = 1 /\ sessions = <<[closed |-> FALSE, supplied |-> TRUE]>>
    /\ pending = {}
    /\ requests = <<>>

NextApi == AsyncGetForecastApiRequest \/ AsyncGetForecastApiResponse

SpecApi == InitApi /\ [][NextApi]_vars

TypeOK == Len(returned) <= MaxCalls /\ Len(requests) <= MaxApiCalls

\* ------------------------------------------------------------------ claims
TimeSeries == api_result.timeSeries

Calls(fn) ==
    {c \in 1..Len(returned) : returned[c].fn = fn /\ returned[c].outcome = "ok"}

\* day of month of record i, read from the validTime text
DayOfRecord(i) == TimeSeries[i].validTime[2]

DistinctDayKeys == {DayOfRecord(i) : i \in 1..Len(TimeSeries)}

\* the records that are the first of their day, in input order
FirstOccurrences ==
    SortedSeq({i \in 1..Len(TimeSeries) : \A j \in 1..(i - 1) : DayOfRecord(j) # DayOfRecord(i)})

\* C1: a daily call on a non-empty document returns 1 + (number of distinct
\* day keys) elements: the current-conditions element, then one summary per
\* day group, in first-occurrence order of the days.
C1_DailyLength ==
    \A c \in Calls("daily") :
        TimeSeries # <<>> =>
            /\ Len(returned[c].value) = 1 + Cardinality(DistinctDayKeys)
            /\ \A d \in 1..Len(FirstOccurrences) :
                  returned[c].value[d + 1].valid_time.day = DayOfRecord(FirstOccurrences[d])

C1_Witness ==
    \E c \in Calls("daily") :
        /\ Len(TimeSeries) = 3
        /\ DayOfRecord(1) = DayOfRecord(3)
        /\ DayOfRecord(1) # DayOfRecord(2)
        /\ Len(returned[c].value) = 3

\* the samples of day group d of call c, in group order
GroupSamples(c, d) ==
    [k \in 1..Len(returned[c].days[d].list) |->
        returned[c].samples[returned[c].days[d].list[k]]]

\* C2: the summary of a day group has temperature_max >= and temperature_min
\* <= the temperature of every sample of the group, whatever the temperatures.
C2_Extremes ==
    \A c \in Calls("daily") :
        \A d \in 1..Len(returned[c].days) :
            \A k \in 1..Len(GroupSamples(c, d)) :
                /\ returned[c].value[d + 1].temperature_max >= GroupSamples(c, d)[k].temperature
                /\ returned[c].value[d + 1].temperature_min <= GroupSamples(c, d)[k].temperature

C2_Witness ==
    \E c \in Calls("daily") :
        \E d \in 1..Len(returned[c].days) :
            /\ \E k \in 1..Len(GroupSamples(c, d)) :
                  GroupSamples(c, d)[k].temperature > ForecastTempMinInit
            /\ \E k \in 1..Len(GroupSamples(c, d)) :
                  GroupSamples(c, d)[k].temperature < ForecastTempMaxInit
            /\ returned[c].value[d + 1].temperature_max > ForecastTempMinInit
            /\ returned[c].value[d + 1].temperature_min < ForecastTempMaxInit

Malformed(doc) ==
    \/ ~doc.hasTimeSeries
    \/ doc.timeSeries = <<>>
    \/ \E i \in 1..Len(doc.timeSeries) : DOMAIN doc.timeSeries[i].parameters # ParamNames

WellFormed(doc) == ~Malformed(doc)

\* C3: an hourly call returns one element per timeSeries record, the i-th
\* built from the i-th record, whatever the order of the day keys.
C3_HourlyOrder ==
    \A c \in Calls("hourly") :
      WellFormed(api_result) =>
        /\ Len(returned[c].value) = Len(TimeSeries)
        /\ \A i \in 1..Len(returned[c].value) :
              i <= Len(TimeSeries) =>
                  returned[c].value[i].valid_time = Strptime(TimeSeries[i].validTime)

\* the whole time between record i and the record before it, in seconds
ElapsedSeconds(i) ==
    IF i = 1 THEN SecondsPerHour
    ELSE ToSeconds(Strptime(TimeSeries[i].validTime))
            - ToSeconds(Strptime(TimeSeries[i - 1].validTime))

\* C4: every sample's total_precipitation is round(pmean * elapsed hours, 2)
\* with the full time since the preceding record (1.0 for the first one).
C4_TotalPrecipitation ==
    \A c \in 1..Len(returned) :
        returned[c].outcome = "ok" /\ WellFormed(api_result) =>
            \A i \in 1..Len(returned[c].samples) :
                    returned[c].samples[i].total_precipitation =
                        PrecisionScale * RoundHalfEven(
                            TimeSeries[i].parameters["pmean"] * ElapsedSeconds(i),
                            SecondsPerHour)

\* C5: a call on a malformed document (a record without one of the twelve
\* parameters, or timeSeries absent or empty) ends in an error.
C5_MalformedFails ==
    \A c \in 1..Len(returned) :
        Malformed(api_result) => returned[c].outcome = "error"

\* the position in the group of its representative sample: the last one at
\* hour 12, the first one when there is none
Representative(samples) ==
    LET noon == {k \in 1..Len(samples) : samples[k].valid_time.hour = 12}
    IN  IF noon = {} THEN 1 ELSE CHOOSE k \in noon : \A j \in noon : j <= k

\* the fields the aggregation does not overwrite
Kept(forecast) ==
    [forecast EXCEPT !.temperature_max = 0, !.temperature_min = 0,
                     !.total_precipitation = 0, !.mean_precipitation = 0]

\* C6: a day summary's valid_time and other non-overwritten fields are those
\* of the group's last sample at hour 12, or of its first sample when the
\* group has no sample at hour 12.
C6_RepresentativeSample ==
    \A c \in Calls("daily") :
        \A d \in 1..Len(returned[c].days) :
            Kept(returned[c].value[d + 1]) =
                Kept(GroupSamples(c, d)[Representative(GroupSamples(c, d))])

C6_Witness ==
    \E c \in Calls("daily") :
        \E d \in 1..Len(returned[c].days) :
            /\ Len(GroupSamples(c, d)) = 3
            /\ GroupSamples(c, d)[2].valid_time.hour = 12
            /\ GroupSamples(c, d)[3].valid_time.hour = 12
            /\ returned[c].value[d + 1].valid_time = GroupSamples(c, d)[3].valid_time
            /\ returned[c].value[d + 1].temperature # GroupSamples(c, d)[2].temperature

RECURSIVE SumTotals(_, _)
SumTotals(samples, k) ==
    IF k > Len(samples) THEN 0
    ELSE samples[k].total_precipitation + SumTotals(samples, k + 1)

\* C7: a day summary's total_precipitation is the sum of the
\* total_precipitation of exactly the samples of its group, and its
\* mean_precipitation is that total divided by 24.
C7_DayPrecipitation ==
    \A c \in Calls("daily") :
        \A d \in 1..Len(returned[c].days) :
            /\ returned[c].value[d + 1].total_precipitation = SumTotals(GroupSamples(c, d), 1)
            /\ 24 * returned[c].value[d + 1].mean_precipitation =
                  returned[c].value[d + 1].total_precipitation

\* two samples of one day, one hour apart, pmean 1.0 each: total 2.00
C7_Witness ==
    \E c \in Calls("daily") :
        /\ Len(returned[c].days) = 1
        /\ Len(GroupSamples(c, 1)) = 2
        /\ \A k \in 1..2 : GroupSamples(c, 1)[k].total_precipitation = PrecisionScale * 100
        /\ returned[c].value[2].total_precipitation = PrecisionScale * 200
        /\ returned[c].value[2].mean_precipitation = 200

\* C8: the first element of a daily result is an unmodified copy of the first
\* record's sample (extremes equal to its temperature, the Sample Builder's
\* precipitation values), an object of its own, and the only extra element.
C8_CurrentConditions ==
    \A c \in Calls("daily") :
        TimeSeries # <<>> =>
            /\ returned[c].value[1] = returned[c].samples[1]
            /\ returned[c].value[1].temperature_max = returned[c].value[1].temperature
            /\ returned[c].value[1].temperature_min = returned[c].value[1].temperature
            /\ returned[c].value[1].valid_time = Strptime(TimeSeries[1].validTime)
            /\ returned[c].value[1].temperature = TimeSeries[1].parameters["t"]
            /\ returned[c].value[1].total_precipitation =
                  PrecisionScale * TimeSeries[1].parameters["pmean"]
            /\ returned[c].value[1].mean_precipitation =
                  PrecisionScale * RoundOneDecimal(TimeSeries[1].parameters["pmean"])
            /\ \A k \in 2..Len(returned[c].forecasts) :
                  returned[c].forecasts[k] # returned[c].forecasts[1]
            /\ Len(returned[c].forecasts) = 1 + Len(returned[c].days)

\* the first day has no sample at hour 12: its first sample is the summary
C8_Witness ==
    \E c \in Calls("daily") :
        /\ Len(returned[c].value) >= 2
        /\ \A k \in 1..Len(GroupSamples(c, 1)) : GroupSamples(c, 1)[k].valid_time.hour # 12
        /\ returned[c].value[2].valid_time = returned[c].value[1].valid_time
        /\ returned[c].value[2].temperature_min # returned[c].value[1].temperature_min
        /\ returned[c].value[2].total_precipitation # returned[c].value[1].total_precipitation

\* C9: all daily calls on the document return the same thing, field for
\* field, whatever hourly or daily calls came in between.
C9_Idempotent ==
    \A c1, c2 \in 1..Len(returned) :
        returned[c1].fn = "daily" /\ returned[c2].fn = "daily" =>
            /\ returned[c1].outcome = returned[c2].outcome
            /\ returned[c1].value = returned[c2].value

C9_Witness ==
    /\ Len(returned) = 3
    /\ returned[1].fn = "daily" /\ returned[2].fn = "hourly" /\ returned[3].fn = "daily"
    /\ returned[3].outcome = "ok"
    /\ Len(returned[3].value) >= 3
    /\ \E k \in 1..Len(returned[2].samples) :
          returned[2].value[k].total_precipitation # returned[2].samples[k].total_precipitation

\* C10: no call issues its request on a session that is already closed.
C10_NoRequestOnClosedSession ==
    \A call \in 1..Len(requests) : ~requests[call].on_closed

====
